---- MODULE Spec2Model ----
(***************************************************************************)
(* Metal warehouse: coils are created, logically removed, listed and       *)
(* aggregated.  Two repository backends are modelled side by side: the     *)
(* in-memory repository (app/repository.py, InMemoryCoilRepository) and    *)
(* the SQL-backed functions (app/functions.py).  One run of the model is   *)
(* one deployment, which uses exactly one of the two backends.             *)
(*                                                                         *)
(* Timestamps are integers (clock ticks), floats are integers, an absent   *)
(* timestamp is None, an absent coil (Optional[Coil]) is the empty         *)
(* sequence and a present one is the one-element sequence.                 *)
(***************************************************************************)
EXTENDS Integers, Sequences, FiniteSets, TLC

VARIABLES backend, now, coils, next_id, db, last, sessions

vars == <<backend, now, coils, next_id, db, last, sessions>>

(* ------------------------------ bounds -------------------------------- *)

\* The clock reads ImportTime..MaxTime.
MaxTime == 2

\* At most MaxCoils coils are created in one run.
MaxCoils == 2

\* The <<length, weight>> pairs a create request may carry: two valid ones
\* and two that fail validation.
CoilInputs == {<<1, 2>>, <<2, 1>>, <<0, 1>>, <<1, -1>>}

(* --------------------------- the data model --------------------------- *)

\* date_removed is nullable: None stands for the absent timestamp.
None == -1

\* The clock value at which app/models.py is imported.
ImportTime == 0

Times == ImportTime..MaxTime

\* The date_removed arguments a caller of the in-memory remove_coil passes:
\* none (the clock is read) or an explicit date.
DateRemovedInputs == {None, ImportTime}

Backends == {"memory", "sql"}

\* models.Coil(id, length, weight, date_added, date_removed)
Coil(id, length, weight, date_added, date_removed) ==
    [id |-> id, length |-> length, weight |-> weight,
     date_added |-> date_added, date_removed |-> date_removed]

\* Column(DateTime, default=datetime.now(UTC)): the default is a scalar,
\* evaluated once, when the class body runs at import.
ColumnDefaultDateAdded == ImportTime

\* Field(ge=0) in place of Field(gt=0).
FieldGe0(x) == x >= 0

\* Field(gt=0) on length and on weight.
FieldGt0(x) == x > 0

\* schemas.CoilCreate(length=..., weight=...) validates both fields.
CoilCreateValid(length, weight) == FieldGt0(length) /\ FieldGt0(weight)

\* The store of the backend in use, as a sequence of coils.
Store == IF backend = "memory" THEN coils ELSE db

Ids(s) == {s[i].id : i \in 1..Len(s)}

MaxOf(S) == CHOOSE x \in S : \A y \in S : y <= x

\* Column(Integer, primary_key=True): the store assigns the row id, one more
\* than the largest id of the table (1 for the empty table).
PrimaryKey(table) == IF table = <<>> THEN 1 ELSE MaxOf(Ids(table)) + 1

\* The last operation and what it returned: arg is the coil_id of a remove
\* and the <<start_date, end_date>> of a statistics request (0 otherwise),
\* ret the coil or the coils returned (Optional[Coil]: empty when None),
\* stats the CoilStats returned, err the error raised.
Outcome(op, arg, ret, err) ==
    [op |-> op, arg |-> arg, ret |-> ret, err |-> err, stats |-> <<>>]

(* ------------------------------- create ------------------------------- *)

\* datetime.now(UTC): a clock that never runs backwards.  `now` is the last
\* value read from it and a read returns any value from there on.
ClockReads == now..MaxTime

\* create_coil that forgets `self._next_id += 1`.
MemCreateCoilNoIncrement(length, weight, t) ==
    /\ backend = "memory"
    /\ Len(coils) < MaxCoils
    /\ CoilCreateValid(length, weight)
    /\ t \in ClockReads
    /\ LET db_coil == Coil(next_id, length, weight, t, None)
       IN /\ next_id' = next_id
          /\ coils' = Append(coils, db_coil)
          /\ last' = Outcome("create", 0, <<db_coil>>, "ok")
    /\ now' = t
    /\ UNCHANGED <<backend, db, sessions>>

\* InMemoryCoilRepository.create_coil, the clock reading t
MemCreateCoil(length, weight, t) ==
    /\ backend = "memory"
    /\ Len(coils) < MaxCoils
    /\ CoilCreateValid(length, weight)
    /\ t \in ClockReads
    /\ LET db_coil == Coil(next_id, length, weight, t, None)
       IN /\ next_id' = next_id + 1
          /\ coils' = Append(coils, db_coil)
          /\ last' = Outcome("create", 0, <<db_coil>>, "ok")
    /\ now' = t
    /\ UNCHANGED <<backend, db, sessions>>

\* functions.create_coil: models.Coil(**coil.model_dump()), add, commit,
\* refresh.  The call runs when the clock reads t; the code does not read it.
SqlCreateCoil(length, weight, t) ==
    /\ backend = "sql"
    /\ Len(db) < MaxCoils
    /\ CoilCreateValid(length, weight)
    /\ t \in ClockReads
    /\ LET db_coil == Coil(PrimaryKey(db), length, weight,
                           ColumnDefaultDateAdded, None)
       IN /\ db' = Append(db, db_coil)
          /\ last' = Outcome("create", 0, <<db_coil>>, "ok")
    /\ now' = t
    /\ UNCHANGED <<backend, coils, next_id, sessions>>

\* POST /coils/ with a body that fails CoilCreate's validation: the request is
\* rejected before the repository is called.
CreateCoilRejected(length, weight) ==
    /\ ~CoilCreateValid(length, weight)
    /\ last' = Outcome("create", 0, <<>>, "ValidationError")
    /\ UNCHANGED <<backend, now, coils, next_id, db, sessions>>

(* ------------------------------- remove ------------------------------- *)

\* The coil ids a remove request may carry: every id a run can assign, and
\* one no coil ever has.
RemoveIds == 1..(MaxCoils + 1)

\* The loop without `coil.id == coil_id`: it stops at the first active coil.
MemFindActiveAnyId(s, coil_id) ==
    LET hits == {i \in 1..Len(s) : s[i].date_removed = None}
    IN IF hits = {} THEN 0 ELSE CHOOSE i \in hits : \A j \in hits : i <= j

\* The loop without `coil.date_removed is None`: it stops at the coil with
\* the id, removed or not.
MemFindRemovedToo(s, coil_id) ==
    LET hits == {i \in 1..Len(s) : s[i].id = coil_id}
    IN IF hits = {} THEN 0 ELSE CHOOSE i \in hits : \A j \in hits : i <= j

\* The position of the first coil the loop of remove_coil stops at, 0 if none.
MemFindActive(s, coil_id) ==
    LET hits == {i \in 1..Len(s) :
                    s[i].id = coil_id /\ s[i].date_removed = None}
    IN IF hits = {} THEN 0 ELSE CHOOSE i \in hits : \A j \in hits : i <= j

\* remove_coil that deletes the coil from self.coils.
MemRemoveCoilDeleting(coil_id, date_removed) ==
    /\ backend = "memory"
    /\ LET i == MemFindActive(coils, coil_id)
       IN IF i # 0
          THEN \E t \in ClockReads :
                 /\ coils' = SubSeq(coils, 1, i - 1)
                                 \o SubSeq(coils, i + 1, Len(coils))
                 /\ now' = IF date_removed # None THEN now ELSE t
                 /\ last' = Outcome("remove", coil_id,
                                    <<[coils[i] EXCEPT !.date_removed =
                                         IF date_removed # None
                                         THEN date_removed ELSE t]>>, "ok")
          ELSE /\ coils' = coils
               /\ now' = now
               /\ last' = Outcome("remove", coil_id, <<>>, "ok")
    /\ UNCHANGED <<backend, next_id, db, sessions>>

\* InMemoryCoilRepository.remove_coil(coil_id, date_removed); the clock is
\* read only when a coil is found and no date_removed is passed.
MemRemoveCoil(coil_id, date_removed) ==
    /\ backend = "memory"
    /\ LET i == MemFindActive(coils, coil_id)
       IN IF i # 0
          THEN \E t \in ClockReads :
                 /\ coils' = [coils EXCEPT ![i].date_removed =
                                 IF date_removed # None THEN date_removed ELSE t]
                 /\ now' = IF date_removed # None THEN now ELSE t
                 /\ last' = Outcome("remove", coil_id, <<coils'[i]>>, "ok")
          ELSE /\ coils' = coils
               /\ now' = now
               /\ last' = Outcome("remove", coil_id, <<>>, "ok")
    /\ UNCHANGED <<backend, next_id, db, sessions>>

\* db.query(models.Coil).filter(models.Coil.id == coil_id).first(): the
\* position of the row, 0 if there is none.
SqlFirstById(table, coil_id) ==
    LET hits == {i \in 1..Len(table) : table[i].id = coil_id}
    IN IF hits = {} THEN 0 ELSE CHOOSE i \in hits : \A j \in hits : i <= j

\* remove_coil with `if coil:` in place of
\* `if coil and coil.date_removed is None:`.
SqlRemoveCoilAgain(coil_id) ==
    /\ backend = "sql"
    /\ LET i == SqlFirstById(db, coil_id)
       IN IF i # 0
          THEN \E t \in ClockReads :
                 /\ db' = [db EXCEPT ![i].date_removed = t]
                 /\ now' = t
                 /\ last' = Outcome("remove", coil_id, <<db'[i]>>, "ok")
          ELSE /\ db' = db
               /\ now' = now
               /\ last' = Outcome("remove", coil_id, <<>>, "ok")
    /\ UNCHANGED <<backend, coils, next_id, sessions>>

\* remove_coil whose update is not restricted to the row found: every
\* active row is stamped.
SqlRemoveCoilAllRows(coil_id) ==
    /\ backend = "sql"
    /\ LET i == SqlFirstById(db, coil_id)
       IN IF i # 0 /\ db[i].date_removed = None
          THEN \E t \in ClockReads :
                 /\ db' = [j \in 1..Len(db) |->
                             IF db[j].date_removed = None
                             THEN [db[j] EXCEPT !.date_removed = t] ELSE db[j]]
                 /\ now' = t
                 /\ last' = Outcome("remove", coil_id, <<db'[i]>>, "ok")
          ELSE /\ db' = db
               /\ now' = now
               /\ last' = Outcome("remove", coil_id, <<>>, "ok")
    /\ UNCHANGED <<backend, coils, next_id, sessions>>

\* functions.remove_coil(db, coil_id); the clock is read only when an active
\* coil is found.
SqlRemoveCoil(coil_id) ==
    /\ backend = "sql"
    /\ LET i == SqlFirstById(db, coil_id)
       IN IF i # 0 /\ db[i].date_removed = None
          THEN \E t \in ClockReads :
                 /\ db' = [db EXCEPT ![i].date_removed = t]
                 /\ now' = t
                 /\ last' = Outcome("remove", coil_id, <<db'[i]>>, "ok")
          ELSE /\ db' = db
               /\ now' = now
               /\ last' = Outcome("remove", coil_id, <<>>, "ok")
    /\ UNCHANGED <<backend, coils, next_id, sessions>>

\* The DELETE /coils/{coil_id} requests that may be in progress at once, each
\* with the Session get_db opened for it.
Sessions == {1, 2}

\* A request's position in functions.remove_coil and what its Session holds:
\* the id asked for, the Coil object as the query loaded it (none when no
\* row matched), the object as it is now, and the value returned.
Idle ==
    [pc |-> "idle", coil_id |-> 0, loaded |-> <<>>, coil |-> <<>>, ret |-> <<>>]

\* coil = db.query(models.Coil).filter(models.Coil.id == coil_id).first():
\* the request's Session loads the row as committed at that moment.
RemoveQuery(p, coil_id) ==
    /\ backend = "sql"
    /\ sessions[p].pc \in {"idle", "done"}
    /\ LET i == SqlFirstById(db, coil_id)
       IN sessions' = [sessions EXCEPT ![p] =
                          [pc |-> "loaded", coil_id |-> coil_id,
                           loaded |-> IF i = 0 THEN <<>> ELSE <<db[i]>>,
                           coil |-> IF i = 0 THEN <<>> ELSE <<db[i]>>,
                           ret |-> <<>>]]
    /\ UNCHANGED <<backend, now, coils, next_id, db, last>>

\* Variant: the UPDATE carries `AND date_removed IS NULL`, so it changes no
\* row that another request has removed since the query.
SqlUpdateDateRemovedIfActive(table, coil_id, t) ==
    [i \in 1..Len(table) |->
        IF table[i].id = coil_id /\ table[i].date_removed = None
        THEN [table[i] EXCEPT !.date_removed = t]
        ELSE table[i]]

\* UPDATE ... SET date_removed = t WHERE id = coil_id
SqlUpdateDateRemoved(table, coil_id, t) ==
    [i \in 1..Len(table) |->
        IF table[i].id = coil_id
        THEN [table[i] EXCEPT !.date_removed = t]
        ELSE table[i]]

\* `if coil and coil.date_removed is None:` on the loaded object, then
\* coil.date_removed = datetime.now(UTC); db.commit() writes the loaded
\* object's change by primary key.  Otherwise the request returns None.
RemoveCommit(p) ==
    /\ backend = "sql"
    /\ sessions[p].pc = "loaded"
    /\ LET coil == sessions[p].coil
       IN IF coil # <<>> /\ coil[1].date_removed = None
          THEN \E t \in ClockReads :
                 /\ now' = t
                 /\ db' = SqlUpdateDateRemoved(db, coil[1].id, t)
                 /\ sessions' = [sessions EXCEPT
                        ![p].pc = "committed",
                        ![p].coil = <<[coil[1] EXCEPT !.date_removed = t]>>]
          ELSE /\ now' = now
               /\ db' = db
               /\ sessions' = [sessions EXCEPT ![p].pc = "done",
                                                ![p].ret = <<>>]
    /\ UNCHANGED <<backend, coils, next_id, last>>

\* db.refresh(coil); return coil: the object is reloaded from the row as
\* committed at that moment and returned.
RemoveRefresh(p) ==
    /\ backend = "sql"
    /\ sessions[p].pc = "committed"
    /\ LET i == SqlFirstById(db, sessions[p].coil_id)
       IN sessions' = [sessions EXCEPT ![p].pc = "done",
                                       ![p].coil = <<db[i]>>,
                                       ![p].ret = <<db[i]>>]
    /\ UNCHANGED <<backend, now, coils, next_id, db, last>>

(* -------------------------------- list -------------------------------- *)

\* Optional[Tuple[lo, hi]]: the absent range is the empty tuple.
NoRange == <<>>

\* The ranges a list request may carry for each dimension: none, or one
\* whose two ends are both values a stored coil can have.
IdRanges == {NoRange, <<2, MaxCoils>>}
WeightRanges == {NoRange, <<1, 1>>}
LengthRanges == {NoRange, <<1, 1>>}
DateAddedRanges == {NoRange, <<1, MaxTime>>}
DateRemovedRanges == {NoRange, <<ImportTime, 1>>}

\* The number of ranges a filter provides.
ProvidedCount(f) ==
    Cardinality({k \in DOMAIN f : f[k] # NoRange})

\* The filters a list request may carry: none, one or two ranges, or all five.
FilterInputs ==
    {f \in [id_range : IdRanges, weight_range : WeightRanges,
            length_range : LengthRanges, date_added_range : DateAddedRanges,
            date_removed_range : DateRemovedRanges] :
        ProvidedCount(f) \in {0, 1, 2, 5}}

\* `if id_range:` -- a tuple is true unless it is empty (or None).
Provided(range) == range # NoRange

\* Python's chained comparison lo <= x <= hi.
PyBetween(lo, x, hi) == lo <= x /\ x <= hi

\* `c.date_removed and ...`: a datetime is true, None is false.
PyTruthy(d) == d # None

\* InMemoryCoilRepository.get_coils: one list comprehension per provided range.
MemGetCoilsResult(store, f) ==
    LET r0 == store
        r1 == IF Provided(f.id_range)
              THEN SelectSeq(r0, LAMBDA c :
                       PyBetween(f.id_range[1], c.id, f.id_range[2]))
              ELSE r0
        r2 == IF Provided(f.weight_range)
              THEN SelectSeq(r1, LAMBDA c :
                       PyBetween(f.weight_range[1], c.weight, f.weight_range[2]))
              ELSE r1
        r3 == IF Provided(f.length_range)
              THEN SelectSeq(r2, LAMBDA c :
                       PyBetween(f.length_range[1], c.length, f.length_range[2]))
              ELSE r2
        r4 == IF Provided(f.date_added_range)
              THEN SelectSeq(r3, LAMBDA c :
                       PyBetween(f.date_added_range[1], c.date_added,
                                 f.date_added_range[2]))
              ELSE r3
        r5 == IF Provided(f.date_removed_range)
              THEN SelectSeq(r4, LAMBDA c :
                       /\ PyTruthy(c.date_removed)
                       /\ PyBetween(f.date_removed_range[1], c.date_removed,
                                    f.date_removed_range[2]))
              ELSE r4
    IN r5

\* A strict comparison in place of <=.
SqlLt(x, y) ==
    IF x = None \/ y = None THEN "NULL" ELSE IF x < y THEN "TRUE" ELSE "FALSE"

\* SQL's three-valued logic: a comparison with NULL is NULL.
SqlLe(x, y) ==
    IF x = None \/ y = None THEN "NULL" ELSE IF x <= y THEN "TRUE" ELSE "FALSE"

SqlAnd(a, b) ==
    IF a = "FALSE" \/ b = "FALSE" THEN "FALSE"
    ELSE IF a = "NULL" \/ b = "NULL" THEN "NULL" ELSE "TRUE"

\* column.between(lo, hi): column BETWEEN lo AND hi, both ends included.
SqlBetweenOp(x, lo, hi) == SqlAnd(SqlLe(lo, x), SqlLe(x, hi))

\* A WHERE that drops only the rows whose criterion is FALSE.
SqlWhereNotFalse(criterion) == criterion # "FALSE"

\* query.filter(criterion): WHERE keeps the rows whose criterion is TRUE,
\* not those where it is FALSE or NULL.
SqlWhere(criterion) == criterion = "TRUE"

\* functions.get_coils: one .filter(column.between(...)) per provided range.
SqlGetCoilsResult(table, f) ==
    LET q0 == table
        q1 == IF Provided(f.id_range)
              THEN SelectSeq(q0, LAMBDA c :
                       SqlWhere(SqlBetweenOp(c.id, f.id_range[1], f.id_range[2])))
              ELSE q0
        q2 == IF Provided(f.weight_range)
              THEN SelectSeq(q1, LAMBDA c :
                       SqlWhere(SqlBetweenOp(c.weight, f.weight_range[1], f.weight_range[2])))
              ELSE q1
        q3 == IF Provided(f.length_range)
              THEN SelectSeq(q2, LAMBDA c :
                       SqlWhere(SqlBetweenOp(c.length, f.length_range[1], f.length_range[2])))
              ELSE q2
        q4 == IF Provided(f.date_added_range)
              THEN SelectSeq(q3, LAMBDA c :
                       SqlWhere(SqlBetweenOp(c.date_added, f.date_added_range[1],
                                    f.date_added_range[2])))
              ELSE q3
        q5 == IF Provided(f.date_removed_range)
              THEN SelectSeq(q4, LAMBDA c :
                       SqlWhere(SqlBetweenOp(c.date_removed, f.date_removed_range[1],
                                    f.date_removed_range[2])))
              ELSE q4
    IN q5

\* InMemoryCoilRepository.get_coils as an operation
MemGetCoils(f) ==
    /\ backend = "memory"
    /\ last' = Outcome("list", 0, MemGetCoilsResult(coils, f), "ok")
    /\ UNCHANGED <<backend, now, coils, next_id, db, sessions>>

\* functions.get_coils as an operation
SqlGetCoils(f) ==
    /\ backend = "sql"
    /\ last' = Outcome("list", 0, SqlGetCoilsResult(db, f), "ok")
    /\ UNCHANGED <<backend, now, coils, next_id, db, sessions>>

(* ----------------------------- statistics ----------------------------- *)

\* timedelta(days=1), in clock ticks: midnight falls on the multiples of it,
\* and two instants of one day lie strictly between two midnights.
OneDay == 3

\* Optional[float] and Optional[datetime] fields of CoilStats: the absent
\* value is the empty tuple, the value v is <<v>>; a quotient is the reduced
\* fraction <<numerator, denominator>>.
Absent == <<>>
Some(v) == <<v>>

RECURSIVE Gcd(_, _)
Gcd(a, b) == IF b = 0 THEN a ELSE Gcd(b, a % b)

\* sum(xs) / len(xs), exactly
Quotient(num, den) == LET g == Gcd(num, den) IN <<num \div g, den \div g>>

RECURSIVE SumSeq(_)
SumSeq(xs) == IF xs = <<>> THEN 0 ELSE Head(xs) + SumSeq(Tail(xs))

Elems(xs) == {xs[i] : i \in 1..Len(xs)}

MinOf(S) == CHOOSE x \in S : \A y \in S : x <= y

\* [c.length for c in cs], [c.weight for c in cs] and
\* [c.date_removed - c.date_added for c in cs]
RECURSIVE Lengths(_)
Lengths(cs) ==
    IF cs = <<>> THEN <<>> ELSE <<Head(cs).length>> \o Lengths(Tail(cs))

RECURSIVE Weights(_)
Weights(cs) ==
    IF cs = <<>> THEN <<>> ELSE <<Head(cs).weight>> \o Weights(Tail(cs))

RECURSIVE TimeDiffs(_)
TimeDiffs(cs) ==
    IF cs = <<>> THEN <<>>
    ELSE <<Head(cs).date_removed - Head(cs).date_added>> \o TimeDiffs(Tail(cs))

\* start_date.replace(hour=0, minute=0, second=0, microsecond=0)
Midnight(t) == t - (t % OneDay)

\* Variant: the loop runs while current_date < end_date.
RECURSIVE DaysFromStrict(_, _)
DaysFromStrict(current_date, end_date) ==
    IF current_date < end_date
    THEN <<current_date>> \o DaysFromStrict(current_date + OneDay, end_date)
    ELSE <<>>

\* The days the while loop visits: current_date, +1 day, ... while <= end_date.
RECURSIVE DaysFrom(_, _)
DaysFrom(current_date, end_date) ==
    IF current_date <= end_date
    THEN <<current_date>> \o DaysFrom(current_date + OneDay, end_date)
    ELSE <<>>

\* Variant: the last entry with the largest value wins.
LastMaxDate(days_stats, key) ==
    LET i == CHOOSE j \in 1..Len(days_stats) :
                 \A k \in 1..Len(days_stats) :
                    IF k > j THEN days_stats[k][key] < days_stats[j][key]
                    ELSE days_stats[k][key] <= days_stats[j][key]
    IN days_stats[i].date

\* max(days_stats, key=lambda x: x[key])["date"]: the first entry with the
\* largest value.
FirstMaxDate(days_stats, key) ==
    LET i == CHOOSE j \in 1..Len(days_stats) :
                 \A k \in 1..Len(days_stats) :
                    IF k < j THEN days_stats[k][key] < days_stats[j][key]
                    ELSE days_stats[k][key] <= days_stats[j][key]
    IN days_stats[i].date

\* min(days_stats, key=lambda x: x[key])["date"]: the first entry with the
\* smallest value.
FirstMinDate(days_stats, key) ==
    LET i == CHOOSE j \in 1..Len(days_stats) :
                 \A k \in 1..Len(days_stats) :
                    IF k < j THEN days_stats[k][key] > days_stats[j][key]
                    ELSE days_stats[k][key] >= days_stats[j][key]
    IN days_stats[i].date

\* Variant: the empty result reports total_weight as 0 (the sum of no weights)
\* instead of leaving it absent.
EmptyStatsZeroTotalWeight(added_count, removed_count) ==
    [added_count |-> added_count, removed_count |-> removed_count,
     avg_length |-> Absent, avg_weight |-> Absent,
     max_length |-> Absent, min_length |-> Absent,
     max_weight |-> Absent, min_weight |-> Absent,
     total_weight |-> Some(0),
     max_time_diff |-> Absent, min_time_diff |-> Absent,
     day_max_count |-> Absent, day_min_count |-> Absent,
     day_max_weight |-> Absent, day_min_weight |-> Absent]

\* schemas.CoilStats with every optional field absent
EmptyStats(added_count, removed_count) ==
    [added_count |-> added_count, removed_count |-> removed_count,
     avg_length |-> Absent, avg_weight |-> Absent,
     max_length |-> Absent, min_length |-> Absent,
     max_weight |-> Absent, min_weight |-> Absent,
     total_weight |-> Absent,
     max_time_diff |-> Absent, min_time_diff |-> Absent,
     day_max_count |-> Absent, day_min_count |-> Absent,
     day_max_weight |-> Absent, day_min_weight |-> Absent]

\* The four day_* fields from the daily series (None when it is empty).
DayFields(days_stats) ==
    IF days_stats # <<>>
    THEN [day_max_count |-> Some(FirstMaxDate(days_stats, "count")),
          day_min_count |-> Some(FirstMinDate(days_stats, "count")),
          day_max_weight |-> Some(FirstMaxDate(days_stats, "weight")),
          day_min_weight |-> Some(FirstMinDate(days_stats, "weight"))]
    ELSE [day_max_count |-> Absent, day_min_count |-> Absent,
          day_max_weight |-> Absent, day_min_weight |-> Absent]

\* Variant: only coils removed inside the window are relevant.
MemRelevantRemovedOnly(c, start_date, end_date) ==
    /\ PyTruthy(c.date_removed)
    /\ c.date_removed >= start_date
    /\ c.date_removed <= end_date

\* Variant: only coils added or removed inside the window are relevant; the
\* coils open during the window are left out.
MemRelevantAddedOrRemoved(c, start_date, end_date) ==
    \/ (c.date_added >= start_date /\ c.date_added <= end_date)
    \/ (/\ PyTruthy(c.date_removed)
        /\ c.date_removed >= start_date
        /\ c.date_removed <= end_date)

\* The condition of the relevant_coils comprehension.
MemRelevant(c, start_date, end_date) ==
    \/ (c.date_added >= start_date /\ c.date_added <= end_date)
    \/ (/\ PyTruthy(c.date_removed)
        /\ c.date_removed >= start_date
        /\ c.date_removed <= end_date)
    \/ (/\ c.date_added <= end_date
        /\ (c.date_removed = None \/ c.date_removed >= start_date))

\* The condition of the active_coils comprehension of the day loop.
MemActiveAt(c, current_date) ==
    /\ c.date_added <= current_date
    /\ (c.date_removed = None \/ c.date_removed > current_date)

\* The body of the while loop, for each day it visits.
\* One entry of days_stats: the date, the count and the weight of the
\* active coils.
DayStats(current_date, active_coils) ==
    [date |-> current_date, count |-> Len(active_coils),
     weight |-> SumSeq(Weights(active_coils))]

RECURSIVE MemDaysStats(_, _)
MemDaysStats(store, days) ==
    IF days = <<>> THEN <<>>
    ELSE <<DayStats(Head(days),
                    SelectSeq(store, LAMBDA c : MemActiveAt(c, Head(days))))>>
         \o MemDaysStats(store, Tail(days))

\* The CoilStats the in-memory get_statistics builds from its lists.
MemCoilStats(added_count, removed_count, lengths, weights, time_diffs, days) ==
    IF lengths = <<>>
    THEN EmptyStats(added_count, removed_count)
    ELSE [added_count |-> added_count, removed_count |-> removed_count,
          avg_length |-> Quotient(SumSeq(lengths), Len(lengths)),
          avg_weight |-> Quotient(SumSeq(weights), Len(weights)),
          max_length |-> Some(MaxOf(Elems(lengths))),
          min_length |-> Some(MinOf(Elems(lengths))),
          max_weight |-> Some(MaxOf(Elems(weights))),
          min_weight |-> Some(MinOf(Elems(weights))),
          total_weight |-> Some(SumSeq(weights)),
          max_time_diff |-> IF time_diffs # <<>>
                            THEN Some(MaxOf(Elems(time_diffs))) ELSE Absent,
          min_time_diff |-> IF time_diffs # <<>>
                            THEN Some(MinOf(Elems(time_diffs))) ELSE Absent,
          day_max_count |-> days.day_max_count,
          day_min_count |-> days.day_min_count,
          day_max_weight |-> days.day_max_weight,
          day_min_weight |-> days.day_min_weight]

\* Variant: the day loop scans relevant_coils instead of self.coils.
MemStatsOfRelevantDays(store, relevant_coils, added_count, removed_count, start_date, end_date) ==
    MemCoilStats(added_count, removed_count,
                 Lengths(relevant_coils), Weights(relevant_coils),
                 TimeDiffs(SelectSeq(relevant_coils,
                                     LAMBDA c : c.date_removed # None)),
                 DayFields(MemDaysStats(relevant_coils,
                               DaysFrom(Midnight(start_date), end_date))))

\* The lists get_statistics derives from relevant_coils (`if not
\* relevant_coils` is `lengths = <<>>`: one length per relevant coil).
MemStatsOfRelevant(store, relevant_coils, added_count, removed_count, start_date, end_date) ==
    MemCoilStats(added_count, removed_count,
                 Lengths(relevant_coils), Weights(relevant_coils),
                 TimeDiffs(SelectSeq(relevant_coils,
                                     LAMBDA c : c.date_removed # None)),
                 DayFields(MemDaysStats(store,
                               DaysFrom(Midnight(start_date), end_date))))

\* InMemoryCoilRepository.get_statistics
MemGetStatisticsResult(store, start_date, end_date) ==
    MemStatsOfRelevant(
        store,
        SelectSeq(store, LAMBDA c : MemRelevant(c, start_date, end_date)),
        Len(SelectSeq(store, LAMBDA c :
                PyBetween(start_date, c.date_added, end_date))),
        Len(SelectSeq(store, LAMBDA c :
                /\ PyTruthy(c.date_removed)
                /\ PyBetween(start_date, c.date_removed, end_date))),
        start_date, end_date)

SqlOr(a, b) ==
    IF a = "TRUE" \/ b = "TRUE" THEN "TRUE"
    ELSE IF a = "NULL" \/ b = "NULL" THEN "NULL" ELSE "FALSE"

\* column.is_(None)
SqlIsNull(x) == IF x = None THEN "TRUE" ELSE "FALSE"

\* column.isnot(None)
SqlIsNotNull(x) == IF x = None THEN "FALSE" ELSE "TRUE"

\* column > value
SqlGt(x, y) ==
    IF x = None \/ y = None THEN "NULL" ELSE IF x > y THEN "TRUE" ELSE "FALSE"

\* Variant: the WHERE clause without its third disjunct.
SqlRelevantAddedOrRemoved(c, start_date, end_date) ==
    SqlOr(SqlBetweenOp(c.date_added, start_date, end_date),
          SqlBetweenOp(c.date_removed, start_date, end_date))

\* The WHERE clause of the `coils` query, the set the aggregates range over.
SqlRelevant(c, start_date, end_date) ==
    SqlOr(SqlBetweenOp(c.date_added, start_date, end_date),
      SqlOr(SqlBetweenOp(c.date_removed, start_date, end_date),
            SqlAnd(SqlLe(c.date_added, end_date),
                   SqlOr(SqlLe(start_date, c.date_removed),
                         SqlIsNull(c.date_removed)))))

\* The WHERE clause of the two queries of the day loop.
SqlActiveAt(c, current_date) ==
    SqlAnd(SqlLe(c.date_added, current_date),
           SqlOr(SqlGt(c.date_removed, current_date), SqlIsNull(c.date_removed)))

\* The WHERE clause of the time_diff query.
SqlTimeDiffRow(c, start_date, end_date) ==
    SqlAnd(SqlIsNotNull(c.date_removed),
           SqlBetweenOp(c.date_added, start_date, end_date))

\* func.avg / func.max / func.min / func.sum over the selected rows: NULL
\* (None) when no row is selected.
SqlAvg(xs) == IF xs = <<>> THEN Absent ELSE Quotient(SumSeq(xs), Len(xs))
SqlMax(xs) == IF xs = <<>> THEN Absent ELSE Some(MaxOf(Elems(xs)))
SqlMin(xs) == IF xs = <<>> THEN Absent ELSE Some(MinOf(Elems(xs)))
SqlSum(xs) == IF xs = <<>> THEN Absent ELSE Some(SumSeq(xs))

\* The body of the while loop, for each day it visits: the count query and
\* the sum query, `weight if weight is not None else 0.0`.
\* One entry of days_stats from the results of the two queries.
SqlDayStats(current_date, count, weight) ==
    [date |-> current_date, count |-> count,
     weight |-> IF weight # Absent THEN weight[1] ELSE 0]

RECURSIVE SqlDaysStats(_, _)
SqlDaysStats(table, days) ==
    IF days = <<>> THEN <<>>
    ELSE <<SqlDayStats(
             Head(days),
             Len(SelectSeq(table, LAMBDA c : SqlWhere(SqlActiveAt(c, Head(days))))),
             SqlSum(Weights(SelectSeq(table, LAMBDA c : SqlWhere(SqlActiveAt(c, Head(days)))))))>>
         \o SqlDaysStats(table, Tail(days))

\* The CoilStats functions.get_statistics builds from its query results.
SqlCoilStats(added_count, removed_count, lengths, weights, diffs, days) ==
    IF added_count = 0
    THEN EmptyStats(0, 0)
    ELSE [added_count |-> added_count, removed_count |-> removed_count,
          avg_length |-> SqlAvg(lengths),
          avg_weight |-> SqlAvg(weights),
          max_length |-> SqlMax(lengths),
          min_length |-> SqlMin(lengths),
          max_weight |-> SqlMax(weights),
          min_weight |-> SqlMin(weights),
          total_weight |-> SqlSum(weights),
          max_time_diff |-> SqlMax(diffs),
          min_time_diff |-> SqlMin(diffs),
          day_max_count |-> days.day_max_count,
          day_min_count |-> days.day_min_count,
          day_max_weight |-> days.day_max_weight,
          day_min_weight |-> days.day_min_weight]

\* The aggregates over the rows of the `coils` query.
SqlStatsOfRows(table, rows, added_count, removed_count, start_date, end_date) ==
    SqlCoilStats(added_count, removed_count, Lengths(rows), Weights(rows),
                 TimeDiffs(SelectSeq(table, LAMBDA c :
                               SqlWhere(SqlTimeDiffRow(c, start_date, end_date)))),
                 DayFields(SqlDaysStats(table,
                               DaysFrom(Midnight(start_date), end_date))))

\* functions.get_statistics
SqlGetStatisticsResult(table, start_date, end_date) ==
    SqlStatsOfRows(
        table,
        SelectSeq(table, LAMBDA c : SqlWhere(SqlRelevant(c, start_date, end_date))),
        Len(SelectSeq(table, LAMBDA c :
                SqlWhere(SqlBetweenOp(c.date_added, start_date, end_date)))),
        Len(SelectSeq(table, LAMBDA c :
                SqlWhere(SqlBetweenOp(c.date_removed, start_date, end_date)))),
        start_date, end_date)

\* The windows a statistics request may carry (start_date <= end_date): at
\* midnight, within one day from midnight or from a later instant, and
\* reaching the next midnight from midnight or from the second instant of
\* the day.
Windows == {<<0, 0>>, <<0, 1>>, <<1, 1>>, <<1, 2>>, <<0, 3>>, <<2, 3>>}

\* Variant: get_statistics rebinds self.coils to relevant_coils.
MemGetStatisticsKeepingRelevant(start_date, end_date) ==
    /\ backend = "memory"
    /\ last' = [op |-> "statistics", arg |-> <<start_date, end_date>>, ret |-> <<>>, err |-> "ok",
                stats |-> <<MemGetStatisticsResult(coils, start_date, end_date)>>]
    /\ coils' = SelectSeq(coils, LAMBDA c : MemRelevant(c, start_date, end_date))
    /\ UNCHANGED <<backend, now, next_id, db, sessions>>

\* InMemoryCoilRepository.get_statistics as an operation
MemGetStatistics(start_date, end_date) ==
    /\ backend = "memory"
    /\ last' = [op |-> "statistics", arg |-> <<start_date, end_date>>, ret |-> <<>>, err |-> "ok",
                stats |-> <<MemGetStatisticsResult(coils, start_date, end_date)>>]
    /\ UNCHANGED <<backend, now, coils, next_id, db, sessions>>

\* functions.get_statistics as an operation
SqlGetStatistics(start_date, end_date) ==
    /\ backend = "sql"
    /\ last' = [op |-> "statistics", arg |-> <<start_date, end_date>>, ret |-> <<>>, err |-> "ok",
                stats |-> <<SqlGetStatisticsResult(db, start_date, end_date)>>]
    /\ UNCHANGED <<backend, now, coils, next_id, db, sessions>>

\* The (start, end) pairs a GET /statistics/ request may carry after parsing:
\* the windows above and two with start after end.
WindowRequests == Windows \cup {<<1, 0>>, <<3, 2>>}

\* Variant: the handler passes every parsed pair on to the repository.
ApiGetStatisticsUnchecked(start, end) ==
    \/ MemGetStatistics(start, end)
    \/ SqlGetStatistics(start, end)

\* main.get_statistics (GET /statistics/) from the comparison of the parsed
\* dates on: HTTPException(400) when start > end, repo.get_statistics(start,
\* end) otherwise.
ApiGetStatistics(start, end) ==
    IF start > end
    THEN /\ last' = Outcome("statistics", <<start, end>>, <<>>, "400")
         /\ UNCHANGED <<backend, now, coils, next_id, db, sessions>>
    ELSE \/ MemGetStatistics(start, end)
         \/ SqlGetStatistics(start, end)

(* ---------------------------- specification --------------------------- *)

Init ==
    /\ backend \in Backends
    /\ now = ImportTime
    /\ coils = <<>>
    /\ next_id = 1
    /\ db = <<>>
    /\ last = Outcome("init", 0, <<>>, "ok")
    /\ sessions = [p \in Sessions |-> Idle]

\* The requests that change the store: create and remove.
Writes ==
    \/ \E c \in CoilInputs, t \in Times :
          \/ MemCreateCoil(c[1], c[2], t)
          \/ SqlCreateCoil(c[1], c[2], t)
    \/ \E c \in CoilInputs : CreateCoilRejected(c[1], c[2])
    \/ \E coil_id \in RemoveIds, date_removed \in DateRemovedInputs :
          MemRemoveCoil(coil_id, date_removed)
    \/ \E coil_id \in RemoveIds : SqlRemoveCoil(coil_id)

\* The list requests.
Lists == \E f \in FilterInputs : MemGetCoils(f) \/ SqlGetCoils(f)

\* The statistics requests.
Statistics ==
    \E w \in Windows :
       \/ MemGetStatistics(w[1], w[2])
       \/ SqlGetStatistics(w[1], w[2])

\* Create, remove, list and statistics requests in any order.
Next == Writes \/ Lists \/ Statistics

Spec == Init /\ [][Next]_vars

\* Create, remove and list requests in any order.
NextList == Writes \/ Lists

SpecList == Init /\ [][NextList]_vars

\* Create, remove and statistics requests in any order.
NextStatistics == Writes \/ Statistics

SpecStatistics == Init /\ [][NextStatistics]_vars

\* The GET /statistics/ requests, rejected ones included.
ApiStatistics == \E w \in WindowRequests : ApiGetStatistics(w[1], w[2])

\* Create, remove and GET /statistics/ requests in any order.
NextApi == Writes \/ ApiStatistics

SpecApi == Init /\ [][NextApi]_vars

\* POST /coils/ requests on the SQL backend.
SqlCreates ==
    \E c \in CoilInputs, t \in Times : SqlCreateCoil(c[1], c[2], t)

\* The steps of the DELETE /coils/{coil_id} requests in progress.
ConcurrentRemoves ==
    \E p \in Sessions :
       \/ \E coil_id \in RemoveIds : RemoveQuery(p, coil_id)
       \/ RemoveCommit(p)
       \/ RemoveRefresh(p)

\* Creates and concurrent removes on the SQL backend, interleaved at the
\* statements that reach the database.
NextConcurrent == SqlCreates \/ ConcurrentRemoves

SpecConcurrent == Init /\ [][NextConcurrent]_vars

(* ------------------------------ properties ---------------------------- *)

\* The store after the step.
StoreNext == IF backend = "memory" THEN coils' ELSE db'

\* The position of the coil with the id in the store, 0 if there is none.
PosOfId(s, id) ==
    IF id \in Ids(s) THEN CHOOSE i \in 1..Len(s) : s[i].id = id ELSE 0

\* A remove(coil_id) request, on either backend.
RemoveStep(coil_id) ==
    /\ last'.op = "remove"
    /\ last'.arg = coil_id
    /\ \/ \E date_removed \in DateRemovedInputs :
             MemRemoveCoil(coil_id, date_removed)
       \/ SqlRemoveCoil(coil_id)

\* A create(length, weight) request that reaches the repository when the
\* clock reads t.
CreatedStep(length, weight, t) ==
    /\ last'.op = "create"
    /\ now' = t
    /\ \/ MemCreateCoil(length, weight, t)
       \/ SqlCreateCoil(length, weight, t)

\* A create(length, weight) request, accepted or rejected.
CreateStep(length, weight, t) ==
    /\ last'.op = "create"
    /\ \/ CreatedStep(length, weight, t)
       \/ CreateCoilRejected(length, weight)

\* C1: on either backend, remove(id) of a stored active coil returns that
\* coil with date_removed set; the coil then stays removed through every
\* later operation, and remove(id) of a removed coil returns None.
C1_RemoveOnceThenNotFound ==
    [][/\ last'.op = "remove" =>
            \A coil_id \in RemoveIds :
               RemoveStep(coil_id) =>
                 LET i == PosOfId(Store, coil_id)
                 IN /\ (i # 0 /\ Store[i].date_removed = None) =>
                          /\ last'.ret = <<StoreNext[i]>>
                          /\ StoreNext[i].id = coil_id
                          /\ StoreNext[i].date_removed # None
                    /\ (i # 0 /\ Store[i].date_removed # None) =>
                          last'.ret = <<>>
       /\ \A i \in 1..Len(Store) :
            Store[i].date_removed # None =>
              /\ i <= Len(StoreNext)
              /\ StoreNext[i].id = Store[i].id
              /\ StoreNext[i].date_removed # None]_vars

\* A second remove of a removed coil has returned None, with another coil
\* created in between.
C1_Witness ==
    /\ last.op = "remove"
    /\ last.ret = <<>>
    /\ Len(Store) = 2
    /\ last.arg = Store[1].id
    /\ Store[1].date_removed # None

\* C2: remove(id) of an id no stored coil has returns None, raises nothing
\* and leaves the coils and the next id as they were.
C2_RemoveUnknownId ==
    [][\A coil_id \in RemoveIds :
          (RemoveStep(coil_id) /\ coil_id \notin Ids(Store)) =>
             /\ last'.ret = <<>>
             /\ last'.err = "ok"
             /\ coils' = coils
             /\ db' = db
             /\ next_id' = next_id]_vars

\* A remove of an unknown id has returned None while an active coil is stored.
C2_Witness ==
    /\ last.op = "remove"
    /\ last.arg \notin Ids(Store)
    /\ last.ret = <<>>
    /\ \E i \in 1..Len(Store) : Store[i].date_removed = None

\* C3: a date_removed that is set is never changed by any later step.
C3_DateRemovedSetOnce ==
    [][\A i \in 1..Len(Store) :
          Store[i].date_removed # None =>
             /\ i <= Len(StoreNext)
             /\ StoreNext[i].id = Store[i].id
             /\ StoreNext[i].date_removed = Store[i].date_removed]_vars

\* A removed coil was asked to be removed again at a later clock value and
\* kept its date_removed.
C3_Witness ==
    /\ last.op = "remove"
    /\ last.ret = <<>>
    /\ \E i \in 1..Len(Store) :
          /\ Store[i].id = last.arg
          /\ Store[i].date_removed # None
          /\ Store[i].date_removed < now

\* C4: every removed coil has date_removed >= date_added.
C4_RemovedNotBeforeAdded ==
    \A i \in 1..Len(Store) :
       Store[i].date_removed # None =>
          Store[i].date_removed >= Store[i].date_added

\* C5: no step deletes a record: the stored ids never shrink, and a remove
\* leaves the number of stored coils unchanged.
C5_LogicalRemovalOnly ==
    [][/\ Ids(Store) \subseteq Ids(StoreNext)
       /\ Len(StoreNext) >= Len(Store)
       /\ last'.op = "remove" =>
             \A coil_id \in RemoveIds :
                RemoveStep(coil_id) => Len(StoreNext) = Len(Store)]_vars

\* A remove has succeeded and the removed coil is still stored.
C5_Witness ==
    /\ last.op = "remove"
    /\ last.ret # <<>>
    /\ \E i \in 1..Len(Store) : Store[i] = last.ret[1]
    /\ Len(Store) = 2

\* No two stored coils have the same id.
IdsDistinct ==
    \A i, j \in 1..Len(Store) : i # j => Store[i].id # Store[j].id

\* C6: create returns a new active coil with the requested length and
\* weight and a positive id, appended to the store; stored ids are pairwise
\* distinct; the new id is greater than every stored id, and in memory it
\* is 1 for the first coil and the previous id plus 1 after that.
C6_CreateAssignsFreshId ==
    /\ []IdsDistinct
    /\ [][\A c \in CoilInputs, t \in Times :
            CreatedStep(c[1], c[2], t) =>
               /\ Len(last'.ret) = 1
               /\ last'.ret[1].length = c[1]
               /\ last'.ret[1].weight = c[2]
               /\ last'.ret[1].date_removed = None
               /\ last'.ret[1].id > 0
               /\ \A id \in Ids(Store) : last'.ret[1].id > id
               /\ StoreNext = Append(Store, last'.ret[1])
               /\ backend = "memory" =>
                     last'.ret[1].id =
                        IF coils = <<>> THEN 1 ELSE coils[Len(coils)].id + 1]_vars

\* A second coil has been created after the first one was removed.
C6_Witness ==
    /\ last.op = "create"
    /\ last.err = "ok"
    /\ Len(Store) = 2
    /\ last.ret = <<Store[2]>>
    /\ Store[1].date_removed # None

\* C7: on either backend a created coil gets the clock value of the create
\* call as its date_added.
C7_DateAddedIsCreationTime ==
    [][\A c \in CoilInputs, t \in Times :
          CreatedStep(c[1], c[2], t) => last'.ret[1].date_added = t]_vars

\* C8: id, length, weight and date_added of a stored coil never change, and
\* a remove leaves every coil other than the targeted one as it was.
C8_RemoveChangesOnlyDateRemoved ==
    [][/\ \A i \in 1..Len(Store) :
             /\ i <= Len(StoreNext)
             /\ StoreNext[i].id = Store[i].id
             /\ StoreNext[i].length = Store[i].length
             /\ StoreNext[i].weight = Store[i].weight
             /\ StoreNext[i].date_added = Store[i].date_added
       /\ \A coil_id \in RemoveIds :
             RemoveStep(coil_id) =>
                \A i \in 1..Len(Store) :
                   Store[i].id # coil_id => StoreNext[i] = Store[i]]_vars

\* One of two stored coils has been removed and the other is still active.
C8_Witness ==
    /\ last.op = "remove"
    /\ last.ret # <<>>
    /\ Len(Store) = 2
    /\ \E i \in 1..2 : Store[i].id # last.arg /\ Store[i].date_removed = None

\* Every stored coil has a positive length and a positive weight.
AllPositive ==
    \A i \in 1..Len(Store) : Store[i].length > 0 /\ Store[i].weight > 0

\* C9: stored coils always have length > 0 and weight > 0; a create request
\* with length <= 0 or weight <= 0 ends in a validation error and changes
\* neither the coils nor the next id.
C9_CreateValidatesLengthAndWeight ==
    /\ []AllPositive
    /\ [][\A c \in CoilInputs, t \in Times :
            (CreateStep(c[1], c[2], t) /\ (c[1] <= 0 \/ c[2] <= 0)) =>
               /\ last'.err = "ValidationError"
               /\ last'.ret = <<>>
               /\ coils' = coils
               /\ db' = db
               /\ next_id' = next_id]_vars

\* A create request was rejected while a coil is stored.
C9_Witness ==
    /\ last.op = "create"
    /\ last.err = "ValidationError"
    /\ Store # <<>>

\* x lies in the range, or no range is given.
InRange(range, x) == range = NoRange \/ (range[1] <= x /\ x <= range[2])

\* The coil satisfies every range the filter provides; an absent
\* date_removed satisfies no provided date_removed_range.
Satisfies(c, f) ==
    /\ InRange(f.id_range, c.id)
    /\ InRange(f.weight_range, c.weight)
    /\ InRange(f.length_range, c.length)
    /\ InRange(f.date_added_range, c.date_added)
    /\ \/ f.date_removed_range = NoRange
       \/ (c.date_removed # None /\ InRange(f.date_removed_range, c.date_removed))

NoFilter ==
    [id_range |-> NoRange, weight_range |-> NoRange, length_range |-> NoRange,
     date_added_range |-> NoRange, date_removed_range |-> NoRange]

\* C10: on every reachable store and for every filter, the in-memory and the
\* SQL-backed get_coils both return exactly the stored coils that satisfy
\* every provided range (ends included, ranges combined with AND), each
\* once, and every stored coil when no range is provided; and what a list
\* request has returned is exactly the matching coils of some filter.
C10_ListReturnsExactlyMatching ==
    /\ \A f \in FilterInputs :
          LET matching == {c \in Elems(Store) : Satisfies(c, f)}
              mem == MemGetCoilsResult(Store, f)
              sql == SqlGetCoilsResult(Store, f)
          IN /\ Elems(mem) = matching
             /\ Elems(sql) = matching
             /\ Len(mem) = Cardinality(matching)
             /\ Len(sql) = Cardinality(matching)
             /\ f = NoFilter => (mem = Store /\ sql = Store)
    /\ last.op = "list" =>
          \E f \in FilterInputs :
             /\ Elems(last.ret) = {c \in Elems(Store) : Satisfies(c, f)}
             /\ Len(last.ret) = Cardinality(Elems(last.ret))

\* A list has returned some of the stored coils, a removed one among them,
\* and left another stored coil out.
C10_Witness ==
    /\ last.op = "list"
    /\ last.ret # <<>>
    /\ Len(last.ret) < Len(Store)
    /\ \E i \in 1..Len(last.ret) : last.ret[i].date_removed # None

\* C11: on every reachable store and for every filter that provides a
\* date_removed_range, whatever the other ranges, neither the in-memory nor
\* the SQL-backed get_coils returns an active coil, and every coil returned
\* has lo <= date_removed <= hi.
C11_DateRemovedRangeExcludesActive ==
    \A f \in FilterInputs :
       Provided(f.date_removed_range) =>
          \A c \in Elems(MemGetCoilsResult(Store, f))
                    \cup Elems(SqlGetCoilsResult(Store, f)) :
             /\ c.date_removed # None
             /\ f.date_removed_range[1] <= c.date_removed
             /\ c.date_removed <= f.date_removed_range[2]

\* A list with a date_removed_range has returned the removed coil and left
\* the active one out.
C11_Witness ==
    /\ last.op = "list"
    /\ Len(Store) = 2
    /\ \E i, j \in 1..2 :
          /\ Store[i].date_removed = None
          /\ Store[j].date_removed \in {ImportTime, 1}
          /\ last.ret = <<Store[j]>>
          /\ Store[i].length = Store[j].length
    /\ \E f \in FilterInputs :
          /\ Provided(f.date_removed_range)
          /\ ~Provided(f.id_range) /\ ~Provided(f.date_added_range)
          /\ ~Provided(f.weight_range) /\ ~Provided(f.length_range)
          /\ last.ret = (IF backend = "memory"
                         THEN MemGetCoilsResult(Store, f)
                         ELSE SqlGetCoilsResult(Store, f))

\* A statistics request has just returned; last.arg is its window.
StatsReturned == last.op = "statistics" /\ last.err = "ok"

\* What the in-memory and the SQL-backed get_statistics return for the
\* store and the window of that request.
MemStats == MemGetStatisticsResult(Store, last.arg[1], last.arg[2])
SqlStats == SqlGetStatisticsResult(Store, last.arg[1], last.arg[2])

\* The result returned, and the result of either implementation.
StatsChecked == {last.stats[1], MemStats, SqlStats}

\* The stored coils (by position) added inside the window, removed inside
\* it, and relevant to it.
AddedIn(start_date, end_date) ==
    {i \in 1..Len(Store) :
        start_date <= Store[i].date_added /\ Store[i].date_added <= end_date}

RemovedIn(start_date, end_date) ==
    {i \in 1..Len(Store) :
        /\ Store[i].date_removed # None
        /\ start_date <= Store[i].date_removed
        /\ Store[i].date_removed <= end_date}

RelevantSet(start_date, end_date) ==
    AddedIn(start_date, end_date) \cup RemovedIn(start_date, end_date)
    \cup {i \in 1..Len(Store) :
             /\ Store[i].date_added <= end_date
             /\ \/ Store[i].date_removed = None
                \/ Store[i].date_removed >= start_date}

\* C12: whenever a statistics request has returned, on either backend, its
\* result has added_count equal to the number of coils added inside the
\* window and removed_count equal to the number of coils removed inside it.
C12_CountsAreWindowCounts ==
    StatsReturned =>
       /\ last.stats[1].added_count
             = Cardinality(AddedIn(last.arg[1], last.arg[2]))
       /\ last.stats[1].removed_count
             = Cardinality(RemovedIn(last.arg[1], last.arg[2]))

OptionalFields ==
    {"avg_length", "avg_weight", "max_length", "min_length", "max_weight",
     "min_weight", "total_weight", "max_time_diff", "min_time_diff",
     "day_max_count", "day_min_count", "day_max_weight", "day_min_weight"}

IsEmptyResult(st) ==
    /\ st.added_count = 0
    /\ st.removed_count = 0
    /\ \A field \in OptionalFields : st[field] = Absent

\* C13: whenever a statistics request has returned, on either backend, for
\* a window inside which no coil was added, its result is the empty one:
\* both counts 0 and every other field absent.
C13_EmptyResultWhenNothingAdded ==
    (StatsReturned /\ AddedIn(last.arg[1], last.arg[2]) = {}) =>
       IsEmptyResult(last.stats[1])

\* C14: whenever a statistics request has returned for a window that no coil
\* overlaps (none added inside it, none removed inside it, none open during
\* it), its result and the result of either implementation for that store and
\* window has both counts 0 and every other field absent, the four day_*
\* fields included; the empty store is one such case.
C14_NothingRelevantGivesEmptyResult ==
    (StatsReturned /\ RelevantSet(last.arg[1], last.arg[2]) = {}) =>
       \A st \in StatsChecked : IsEmptyResult(st)

C14_Witness ==
    /\ StatsReturned
    /\ Store # <<>>
    /\ RelevantSet(last.arg[1], last.arg[2]) = {}
    /\ IsEmptyResult(last.stats[1])

HasAggregates(st) == \E field \in OptionalFields : st[field] # Absent

RECURSIVE SumOver(_, _)
SumOver(S, field) ==
    IF S = {} THEN 0
    ELSE LET i == CHOOSE j \in S : TRUE
         IN Store[i][field] + SumOver(S \ {i}, field)

IsMeanOver(avg, S, field) ==
    /\ Len(avg) = 2
    /\ avg[2] > 0
    /\ avg[1] * Cardinality(S) = avg[2] * SumOver(S, field)

IsMaxOver(v, S, field) ==
    /\ \E i \in S : v = Some(Store[i][field])
    /\ \A i \in S : Store[i][field] <= v[1]

IsMinOver(v, S, field) ==
    /\ \E i \in S : v = Some(Store[i][field])
    /\ \A i \in S : Store[i][field] >= v[1]

\* C15: whenever a statistics request has returned, its result and the
\* result of either implementation for that store and window, when it is not
\* the empty one, has avg_length and avg_weight equal to the mean, max_/min_
\* length and weight equal to the extrema, and total_weight equal to the sum,
\* taken over exactly the coils that were added inside the window, removed
\* inside it, or open during it.
C15_AggregatesOverRelevantSet ==
    StatsReturned =>
       \A st \in StatsChecked :
          HasAggregates(st) =>
             LET R == RelevantSet(last.arg[1], last.arg[2])
             IN /\ R # {}
                /\ IsMeanOver(st.avg_length, R, "length")
                /\ IsMeanOver(st.avg_weight, R, "weight")
                /\ IsMaxOver(st.max_length, R, "length")
                /\ IsMinOver(st.min_length, R, "length")
                /\ IsMaxOver(st.max_weight, R, "weight")
                /\ IsMinOver(st.min_weight, R, "weight")
                /\ st.total_weight = Some(SumOver(R, "weight"))

\* A returned result with aggregates over a store of two coils of different
\* length of which one is relevant only because it was open during the
\* window and the other is not relevant at all.
C15_Witness ==
    /\ StatsReturned
    /\ HasAggregates(last.stats[1])
    /\ Len(Store) = 2
    /\ Store[1].length # Store[2].length
    /\ \E i \in 1..2 :
          /\ RelevantSet(last.arg[1], last.arg[2]) = {i}
          /\ i \notin AddedIn(last.arg[1], last.arg[2])
          /\ i \notin RemovedIn(last.arg[1], last.arg[2])
          /\ last.stats[1].max_length = Some(Store[i].length)
          /\ last.stats[1].total_weight = Some(Store[i].weight)

RemovedRelevant(start_date, end_date) ==
    {i \in RelevantSet(start_date, end_date) : Store[i].date_removed # None}

TimeDiffOf(i) == Store[i].date_removed - Store[i].date_added

TimeDiffsOver(st, D) ==
    IF D = {}
    THEN st.max_time_diff = Absent /\ st.min_time_diff = Absent
    ELSE /\ \E i \in D : st.max_time_diff = Some(TimeDiffOf(i))
         /\ \A i \in D : TimeDiffOf(i) <= st.max_time_diff[1]
         /\ \E i \in D : st.min_time_diff = Some(TimeDiffOf(i))
         /\ \A i \in D : TimeDiffOf(i) >= st.min_time_diff[1]

\* C16: whenever a statistics request has returned, its result and the
\* result of either implementation for that store and window, when it is not
\* the empty one, has max_time_diff and min_time_diff equal to the largest
\* and smallest date_removed - date_added over exactly the removed coils of
\* the relevant set, coils added before the window start included, and both
\* absent when the relevant set has no removed coil.
C16_TimeDiffsOverRemovedRelevant ==
    StatsReturned =>
       \A st \in StatsChecked :
          HasAggregates(st) =>
             TimeDiffsOver(st, RemovedRelevant(last.arg[1], last.arg[2]))

SeriesDays(start_date, end_date) ==
    {d \in 0..end_date : d % OneDay = 0 /\ d > start_date - OneDay}

ActiveOn(d) ==
    {i \in 1..Len(Store) :
        /\ Store[i].date_added <= d
        /\ (Store[i].date_removed = None \/ Store[i].date_removed > d)}

CountOn(d) == Cardinality(ActiveOn(d))

WeightOn(d) == SumOver(ActiveOn(d), "weight")

\* C17: whenever a statistics request has returned, its result and the
\* result of either implementation for that store and window, when it is not
\* the empty one, names in day_max_count, day_min_count, day_max_weight and
\* day_min_weight days of the series (the midnight at or before start, then
\* every following midnight up to end) at which the number, respectively the
\* summed weight, of the coils of the whole store active at that instant is
\* largest, respectively smallest.
C17_DaySeriesOverWholeStore ==
    StatsReturned =>
       \A st \in StatsChecked :
          HasAggregates(st) =>
             LET D == SeriesDays(last.arg[1], last.arg[2])
             IN /\ \E d \in D : /\ st.day_max_count = Some(d)
                                /\ \A e \in D : CountOn(e) <= CountOn(d)
                /\ \E d \in D : /\ st.day_min_count = Some(d)
                                /\ \A e \in D : CountOn(e) >= CountOn(d)
                /\ \E d \in D : /\ st.day_max_weight = Some(d)
                                /\ \A e \in D : WeightOn(e) <= WeightOn(d)
                /\ \E d \in D : /\ st.day_min_weight = Some(d)
                                /\ \A e \in D : WeightOn(e) >= WeightOn(d)

\* A returned result for a window that starts within a day and reaches the
\* next midnight, over a store with a coil that was active at the first
\* midnight and removed before the window started: that coil is not relevant
\* and makes the first day the fullest one.
C17_Witness ==
    /\ StatsReturned
    /\ HasAggregates(last.stats[1])
    /\ SeriesDays(last.arg[1], last.arg[2]) = {0, OneDay}
    /\ ActiveOn(0) \ RelevantSet(last.arg[1], last.arg[2]) # {}
    /\ CountOn(0) > CountOn(OneDay)
    /\ CountOn(OneDay) > 0
    /\ last.stats[1].day_max_count = Some(0)
    /\ last.stats[1].day_min_count = Some(OneDay)

MaxCountDays(D) == {d \in D : \A e \in D : CountOn(e) <= CountOn(d)}

MinCountDays(D) == {d \in D : \A e \in D : CountOn(e) >= CountOn(d)}

MaxWeightDays(D) == {d \in D : \A e \in D : WeightOn(e) <= WeightOn(d)}

MinWeightDays(D) == {d \in D : \A e \in D : WeightOn(e) >= WeightOn(d)}

NotAfter(v, days) == Len(v) = 1 /\ \A d \in days : v[1] <= d

\* C18: whenever a statistics request has returned, its result and the
\* result of either implementation for that store and window, when it is not
\* the empty one, names in day_max_count (day_min_count, day_max_weight,
\* day_min_weight) a day no later than any day of the series that attains
\* the maximal count (minimal count, maximal weight, minimal weight): among
\* tied days the earliest one is reported.
C18_EarliestDayWinsTies ==
    StatsReturned =>
       \A st \in StatsChecked :
          HasAggregates(st) =>
             LET D == SeriesDays(last.arg[1], last.arg[2])
             IN /\ NotAfter(st.day_max_count, MaxCountDays(D))
                /\ NotAfter(st.day_min_count, MinCountDays(D))
                /\ NotAfter(st.day_max_weight, MaxWeightDays(D))
                /\ NotAfter(st.day_min_weight, MinWeightDays(D))

\* A returned result over a series of two days with the same non-zero count
\* and weight: the four day_* fields name the first day.
C18_Witness ==
    /\ StatsReturned
    /\ HasAggregates(last.stats[1])
    /\ SeriesDays(last.arg[1], last.arg[2]) = {0, OneDay}
    /\ CountOn(0) = CountOn(OneDay)
    /\ WeightOn(0) = WeightOn(OneDay)
    /\ CountOn(0) > 0
    /\ last.stats[1].day_max_count = Some(0)
    /\ last.stats[1].day_min_count = Some(0)
    /\ last.stats[1].day_max_weight = Some(0)
    /\ last.stats[1].day_min_weight = Some(0)

\* C19: whenever a statistics request has returned, the SQL-backed
\* get_statistics and the in-memory get_statistics, evaluated on the coil
\* collection of that state and the window of the request, give the same
\* result in every field.
C19_BackendsAgreeOnStatistics ==
    StatsReturned => MemStats = SqlStats

\* C20: every statistics step leaves the coils of both stores and the next
\* id unchanged, and a statistics step that directly follows a statistics
\* request for the same window returns the same result.
C20_StatisticsReadOnlyAndRepeatable ==
    [][last'.op = "statistics" =>
          /\ coils' = coils
          /\ db' = db
          /\ next_id' = next_id
          /\ (last.op = "statistics" /\ last'.arg = last.arg) =>
                last'.stats = last.stats]_vars

\* A returned result that counts every coil of a full store, one of them
\* removed, and equals what the backend's get_statistics gives for the store
\* as it is after the request.
C20_Witness ==
    /\ StatsReturned
    /\ Len(Store) = MaxCoils
    /\ \E i \in 1..Len(Store) : Store[i].date_removed # None
    /\ last.stats[1].added_count = MaxCoils
    /\ last.stats[1] = IF backend = "memory" THEN MemStats ELSE SqlStats

\* What the repository of the backend in use returns for the store before
\* the step and a window.
RepoStatistics(start, end) ==
    IF backend = "memory"
    THEN MemGetStatisticsResult(coils, start, end)
    ELSE SqlGetStatisticsResult(db, start, end)

\* C21: every GET /statistics/ step with start > end answers 400, carries no
\* statistics and leaves both stores and the next id unchanged; every such
\* step with start <= end answers with what the repository's get_statistics
\* returns for that same start and end.
C21_InvertedWindowRejected ==
    [][last'.op = "statistics" =>
          IF last'.arg[1] > last'.arg[2]
          THEN /\ last'.err = "400"
               /\ last'.stats = <<>>
               /\ coils' = coils
               /\ db' = db
               /\ next_id' = next_id
          ELSE /\ last'.err = "ok"
               /\ last'.stats
                     = <<RepoStatistics(last'.arg[1], last'.arg[2])>>]_vars

\* A request with start after end has been rejected on a store that holds a
\* coil a window from end to start would count.
C21_Witness ==
    /\ last.op = "statistics"
    /\ last.arg[1] > last.arg[2]
    /\ last.err = "400"
    /\ last.stats = <<>>
    /\ AddedIn(last.arg[2], last.arg[1]) # {}

\* The request of session p has returned.
RemoveDone(p) == sessions[p].pc = "done"

\* The query of session p's request loaded the coil and found it active.
LoadedActive(p) ==
    /\ sessions[p].loaded # <<>>
    /\ sessions[p].loaded[1].date_removed = None

\* The request of session p returned the coil, removed.
ReturnedRemoved(p) ==
    /\ sessions[p].ret # <<>>
    /\ sessions[p].ret[1].id = sessions[p].coil_id
    /\ sessions[p].ret[1].date_removed # None

\* The date_removed of the row with the id in the table.
RowDateRemoved(table, coil_id) == table[SqlFirstById(table, coil_id)].date_removed

\* Two returned remove requests for one id: when both queries loaded the coil
\* as active, both return it removed; when only one did, that one returns it
\* removed and the other returns None.
RemovePairOutcome ==
    \A p \in Sessions, q \in Sessions :
       (/\ p # q
        /\ RemoveDone(p) /\ RemoveDone(q)
        /\ sessions[p].coil_id = sessions[q].coil_id
        /\ LoadedActive(p))
       => /\ ReturnedRemoved(p)
          /\ IF LoadedActive(q)
             THEN ReturnedRemoved(q)
             ELSE sessions[q].ret = <<>>

\* The commit of a request that loaded the coil as active writes its own
\* date_removed to the row, whatever another request has committed there.
RemoveCommitOverwrites ==
    \A p \in Sessions :
       (sessions[p].pc = "loaded" /\ sessions'[p].pc = "committed")
       => /\ LoadedActive(p)
          /\ RowDateRemoved(db', sessions[p].coil_id)
                = sessions'[p].coil[1].date_removed

\* C22: of two remove requests for one id running on separate sessions,
\* both return the coil as removed when both loaded it as active before
\* either committed, and each commit writes its own date_removed over the
\* one committed before it; when one request's query comes after the other's
\* commit, the first returns the coil and the second returns None.
C22_RemoveIsCheckThenSet == []RemovePairOutcome /\ [][RemoveCommitOverwrites]_vars

\* Both requests for one id have returned the coil, the first with the
\* date_removed it wrote, while the row holds the later one written over it.
C22_Witness ==
    /\ RemoveDone(1) /\ RemoveDone(2)
    /\ sessions[1].coil_id = sessions[2].coil_id
    /\ LoadedActive(1) /\ LoadedActive(2)
    /\ ReturnedRemoved(1) /\ ReturnedRemoved(2)
    /\ sessions[1].ret[1].date_removed < sessions[2].ret[1].date_removed
    /\ RowDateRemoved(db, sessions[1].coil_id)
          = sessions[2].ret[1].date_removed

\* Every removed coil of the store was removed no earlier than it was added.
RemovedNotBeforeAdded ==
    \A i \in 1..Len(Store) :
       Store[i].date_removed = None
          \/ Store[i].date_removed >= Store[i].date_added

\* The coil was open at some point of the window.
OpenDuring(c, start_date, end_date) ==
    /\ c.date_added <= end_date
    /\ (c.date_removed = None \/ c.date_removed >= start_date)

\* C23: whenever a statistics request has returned on a store in which no
\* coil was removed before it was added, each coil of the store satisfies
\* the relevant-set condition of the in-memory get_statistics, and the one of
\* the SQL query, exactly when it was added by the window's end and is active
\* or was removed at or after the window's start.
C23_RelevantIsOpenDuringWindow ==
    (StatsReturned /\ RemovedNotBeforeAdded) =>
       \A i \in 1..Len(Store) :
          /\ MemRelevant(Store[i], last.arg[1], last.arg[2])
                <=> OpenDuring(Store[i], last.arg[1], last.arg[2])
          /\ SqlWhere(SqlRelevant(Store[i], last.arg[1], last.arg[2]))
                <=> OpenDuring(Store[i], last.arg[1], last.arg[2])

\* A returned request on such a store with one coil added inside the window,
\* one coil removed inside it and added before it, both open during it.
C23_Witness ==
    /\ StatsReturned
    /\ RemovedNotBeforeAdded
    /\ \E i \in AddedIn(last.arg[1], last.arg[2]) :
          /\ i \notin RemovedIn(last.arg[1], last.arg[2])
          /\ OpenDuring(Store[i], last.arg[1], last.arg[2])
    /\ \E i \in RemovedIn(last.arg[1], last.arg[2]) :
          /\ i \notin AddedIn(last.arg[1], last.arg[2])
          /\ OpenDuring(Store[i], last.arg[1], last.arg[2])

MagnitudeFields ==
    {"avg_length", "avg_weight", "max_length", "min_length", "max_weight",
     "min_weight", "total_weight"}

\* lo <= avg <= hi for present extrema lo, hi and a present mean avg.
MeanBetween(lo, avg, hi) ==
    /\ lo[1] * avg[2] <= avg[1]
    /\ avg[1] <= hi[1] * avg[2]

\* C24: whenever a statistics request has returned, every coil added or
\* removed inside its window satisfies the relevant-set condition of both
\* implementations; and its result and the result of either implementation
\* for that store and window, unless it is the empty one (both counts 0,
\* nothing else present), has avg, max and min of length and weight and
\* total_weight all present, with min_length <= avg_length <= max_length,
\* min_weight <= avg_weight <= max_weight and total_weight >= max_weight.
C24_CountedCoilsAreRelevant ==
    StatsReturned =>
       /\ \A i \in AddedIn(last.arg[1], last.arg[2])
                    \cup RemovedIn(last.arg[1], last.arg[2]) :
             /\ MemRelevant(Store[i], last.arg[1], last.arg[2])
             /\ SqlWhere(SqlRelevant(Store[i], last.arg[1], last.arg[2]))
       /\ \A st \in StatsChecked :
             ~IsEmptyResult(st) =>
                /\ \A field \in MagnitudeFields : st[field] # Absent
                /\ MeanBetween(st.min_length, st.avg_length, st.max_length)
                /\ MeanBetween(st.min_weight, st.avg_weight, st.max_weight)
                /\ st.total_weight[1] >= st.max_weight[1]

\* A returned result that counts two added coils of different length and
\* weight, one of them removed inside the window: the means lie strictly
\* between the extrema and total_weight exceeds max_weight.
C24_Witness ==
    /\ StatsReturned
    /\ last.stats[1].added_count = 2
    /\ last.stats[1].removed_count = 1
    /\ last.stats[1].min_length[1] < last.stats[1].max_length[1]
    /\ last.stats[1].min_weight[1] < last.stats[1].max_weight[1]
    /\ last.stats[1].total_weight[1] > last.stats[1].max_weight[1]
    /\ MeanBetween(last.stats[1].min_length, last.stats[1].avg_length,
                   last.stats[1].max_length)

DayFieldNames ==
    {"day_max_count", "day_min_count", "day_max_weight", "day_min_weight"}

\* The days the scan of the request's window visits.
DaysScanned == DaysFrom(Midnight(last.arg[1]), last.arg[2])

\* d is a midnight, no earlier than the midnight at or before start and no
\* later than end.
DayInScanRange(d, start_date, end_date) ==
    /\ d % OneDay = 0
    /\ d > start_date - OneDay
    /\ d <= end_date

\* C25: whenever a statistics request has returned, the day scan of its
\* window has stopped after visiting at least one day (one day per midnight
\* from the one at or before start up to end); and in its result and the
\* result of either implementation for that store and window, unless it is
\* the empty one, each of day_max_count, day_min_count, day_max_weight and
\* day_min_weight is present, is a midnight, and lies between the midnight
\* at or before start and end.
C25_DayScanVisitsAtLeastOneDay ==
    StatsReturned =>
       /\ Len(DaysScanned) >= 1
       /\ Len(DaysScanned)
             = Cardinality(SeriesDays(last.arg[1], last.arg[2]))
       /\ \A st \in StatsChecked :
             ~IsEmptyResult(st) =>
                \A field \in DayFieldNames :
                   /\ st[field] # Absent
                   /\ DayInScanRange(st[field][1], last.arg[1], last.arg[2])

\* A returned result whose day_max_count is a midnight before the window's
\* start, on which a coil is counted that was removed before the window
\* started and is not relevant.
C25_Witness ==
    /\ StatsReturned
    /\ ~IsEmptyResult(last.stats[1])
    /\ last.stats[1].day_max_count # Absent
    /\ last.stats[1].day_max_count[1] < last.arg[1]
    /\ \E i \in ActiveOn(last.stats[1].day_max_count[1]) :
          /\ Store[i].date_removed # None
          /\ Store[i].date_removed < last.arg[1]
          /\ i \notin RelevantSet(last.arg[1], last.arg[2])

====
